---- MODULE Spec2Model ----
(***************************************************************************)
(* Monty Python's Flying API: the query/format layer of api/crud.py and    *)
(* the endpoints of api/main.py over the read-only "scripts" table.        *)
(*                                                                         *)
(* A Python str is a sequence of one-character strings; Python None is the *)
(* value None below (its single element is no character).  An optional     *)
(* int is <<>> (None) or <<n>>.  The table is the sequence db of rows in   *)
(* primary-key order.  An answer is [status, data] for a returned value    *)
(* and [status, detail] for an exception.  One request is served at a      *)
(* time: an endpoint acts when none is in progress, and get_db ends it.    *)
(***************************************************************************)
EXTENDS Integers, Sequences, FiniteSets, TLC

VARIABLES db, req, resp

vars == <<db, req, resp>>

(***************************************************************************)
(* Python values.                                                          *)
(***************************************************************************)
None == <<"None">>

NoInt == <<>>

SomeInt(n) == <<n>>

\* The characters used, in code-point order (Python compares str by code point).
CodePoints ==
    <<"%", "*", "-", "0", "1", "2", "3", "4", "5", "6", "7", "8", "9", ":",
      "A", "B", "J", "K", "N", "T", "_", "a", "b", "d", "e", "i", "j", "k",
      "n", "o", "p", "s", "t">>

Ord(c) == CHOOSE i \in 1..Len(CodePoints) : CodePoints[i] = c

\* ASCII case folding, as SQLite's LIKE does it.
Lower(c) ==
    CASE c = "A" -> "a"
      [] c = "B" -> "b"
      [] c = "J" -> "j"
      [] c = "K" -> "k"
      [] c = "N" -> "n"
      [] c = "T" -> "t"
      [] OTHER -> c

\* Python truthiness of an optional str: None and "" are false.
TruthyStr(s) == s # None /\ s # <<>>

\* Python truthiness of an optional int: None and 0 are false.
TruthyInt(n) == n # NoInt /\ n[1] # 0

Digit(d) == CodePoints[Ord("0") + d]

RECURSIVE NatToStr(_)
NatToStr(n) ==
    IF n < 10 THEN <<Digit(n)>> ELSE NatToStr(n \div 10) \o <<Digit(n % 10)>>

\* str(n) of a Python int.
IntToStr(n) == IF n < 0 THEN <<"-">> \o NatToStr(-n) ELSE NatToStr(n)

RECURSIVE DigitsToNat(_, _)
DigitsToNat(s, acc) ==
    IF s = <<>> THEN acc
    ELSE DigitsToNat(Tail(s), 10 * acc + (Ord(Head(s)) - Ord("0")))

\* The INTEGER affinity SQLite applies to a text operand compared with the
\* Integer column episode.
TextToInt(s) ==
    IF Head(s) = "-" THEN 0 - DigitsToNat(Tail(s), 0) ELSE DigitsToNat(s, 0)

\* str() as an f-string applies it to a nullable column.
Str(v) == IF v = None THEN <<"N", "o", "n", "e">> ELSE v

(***************************************************************************)
(* SQL operators.                                                          *)
(***************************************************************************)
RECURSIVE LikeText(_, _)
LikeText(pat, s) ==
    IF pat = <<>> THEN s = <<>>
    ELSE IF Head(pat) = "%"
         THEN LikeText(Tail(pat), s) \/ (s # <<>> /\ LikeText(pat, Tail(s)))
    ELSE IF s = <<>> THEN FALSE
    ELSE /\ Head(pat) = "_" \/ Lower(Head(pat)) = Lower(Head(s))
         /\ LikeText(Tail(pat), Tail(s))

\* column LIKE pattern: NULL LIKE p is NULL, which a WHERE clause rejects.
Like(col, pat) == col # None /\ LikeText(pat, col)

\* SELECT DISTINCT: each value once, at its first occurrence.
Distinct(vals) ==
    LET first == SelectSeq([i \in 1..Len(vals) |-> i],
                           LAMBDA i : \A j \in 1..(i - 1) : vals[j] # vals[i])
    IN  [k \in 1..Len(first) |-> vals[first[k]]]

Segments(rows) == [i \in 1..Len(rows) |-> rows[i].segment]

(***************************************************************************)
(* difflib.                                                                *)
(***************************************************************************)
\* The blocks a[i..i+k-1] = b[j..j+k-1] of length k >= 1.
CommonBlocks(a, b) ==
    {t \in (1..Len(a)) \X (1..Len(b)) \X (1..Len(a)) :
        /\ t[1] + t[3] - 1 <= Len(a)
        /\ t[2] + t[3] - 1 <= Len(b)
        /\ SubSeq(a, t[1], t[1] + t[3] - 1) = SubSeq(b, t[2], t[2] + t[3] - 1)}

\* SequenceMatcher.find_longest_match: longest, then earliest in a, then in b.
LongestMatch(a, b) ==
    CHOOSE t \in CommonBlocks(a, b) :
        \A u \in CommonBlocks(a, b) :
            \/ u[3] < t[3]
            \/ u[3] = t[3] /\ t[1] < u[1]
            \/ u[3] = t[3] /\ t[1] = u[1] /\ t[2] <= u[2]

\* The total size of SequenceMatcher.get_matching_blocks.
RECURSIVE Matches(_, _)
Matches(a, b) ==
    IF CommonBlocks(a, b) = {} THEN 0
    ELSE LET t == LongestMatch(a, b)
         IN  t[3] + Matches(SubSeq(a, 1, t[1] - 1), SubSeq(b, 1, t[2] - 1))
                  + Matches(SubSeq(a, t[1] + t[3], Len(a)),
                            SubSeq(b, t[2] + t[3], Len(b)))

\* SequenceMatcher.ratio() = 2.0 * M / T as the fraction <<numerator, denominator>>
\* (1.0 when both are empty).
Ratio(a, b) ==
    IF Len(a) + Len(b) = 0 THEN <<1, 1>> ELSE <<2 * Matches(a, b), Len(a) + Len(b)>>

FracGeq(p, q) == p[1] * q[2] >= q[1] * p[2]

RECURSIVE StrLess(_, _)
StrLess(s, t) ==
    IF t = <<>> THEN FALSE
    ELSE IF s = <<>> THEN TRUE
    ELSE IF Head(s) = Head(t) THEN StrLess(Tail(s), Tail(t))
    ELSE Ord(Head(s)) < Ord(Head(t))

\* (score, x) < (score', x') as Python orders tuples.
PairLess(p, q) ==
    \/ ~FracGeq(p.score, q.score)
    \/ FracGeq(p.score, q.score) /\ FracGeq(q.score, p.score) /\ StrLess(p.x, q.x)

\* heapq.nlargest(n, result): the n largest pairs, the largest first.
RECURSIVE nlargest(_, _)
nlargest(n, result) ==
    IF n <= 0 \/ result = {} THEN <<>>
    ELSE LET top == CHOOSE p \in result : \A q \in result : ~PairLess(p, q)
         IN  <<top>> \o nlargest(n - 1, result \ {top})

\* difflib.get_close_matches(word, possibilities, n, cutoff): the candidates x
\* with SequenceMatcher(seq1 = x, seq2 = word).ratio() >= cutoff, best first.
get_close_matches(word, possibilities, n, cutoff) ==
    LET result == {[score |-> Ratio(possibilities[i], word), x |-> possibilities[i]] :
                      i \in {k \in 1..Len(possibilities) :
                                FracGeq(Ratio(possibilities[k], word), cutoff)}}
        best == nlargest(n, result)
    IN  [i \in 1..Len(best) |-> best[i].x]

(***************************************************************************)
(* api/models.py                                                           *)
(***************************************************************************)
\* Python range(a, b).
Range(a, b) == [i \in 1..(b - a) |-> a + i - 1]

\* A season 4 that stops one episode early.
season_ranges_short == <<Range(1, 14), Range(14, 27), Range(27, 40), Range(40, 45)>>

season_ranges == <<Range(1, 14), Range(14, 27), Range(27, 40), Range(40, 46)>>

\* A row of the table scripts (the columns the queries read).
Script(episode, segment, type, actor, character, detail) ==
    [episode |-> episode, segment |-> segment, type |-> type,
     actor |-> actor, character |-> character, detail |-> detail]

(***************************************************************************)
(* Answers: a returned value, an HTTPException, an uncaught Python error.  *)
(* In the state an answer's data is a record, so that any two answers      *)
(* compare: a list of sketch names is tagged sketches, a nested view       *)
(* seasons, a list of rendered lines lines, and a rendered line that is a  *)
(* str is the record [string |-> it].                                      *)
(***************************************************************************)
Return(data) == [status |-> 200, data |-> data]

HTTPException(status_code, detail) == [status |-> status_code, detail |-> detail]

Uncaught(error) == [status |-> 500, detail |-> error]

JsonString(s) == [string |-> s]

AsSketches(r) == IF r.status = 200 THEN Return([sketches |-> r.data]) ELSE r

AsSeasons(r) == IF r.status = 200 THEN Return([seasons |-> r.data]) ELSE r

AsLines(r) == IF r.status = 200 THEN Return([lines |-> r.data]) ELSE r

(***************************************************************************)
(* api/crud.py                                                             *)
(***************************************************************************)
\* WHERE episode = str(number): the text operand takes the column's affinity.
EpisodeIsText(row, number) == row.episode = TextToInt(IntToStr(number))

\* The type test misspelt, so that no line is taken for dialogue.
get_formatted_sketch_body_no_dialogue(sketch, detailed) ==
    IF detailed
    THEN [i \in 1..Len(sketch) |->
             [type |-> sketch[i].type, actor |-> sketch[i].actor,
              character |-> sketch[i].character, detail |-> sketch[i].detail]]
    ELSE [i \in 1..Len(sketch) |->
             IF sketch[i].type = "dialogue"
             THEN JsonString(Str(sketch[i].character) \o <<":", " ">>
                                 \o Str(sketch[i].detail))
             ELSE JsonString(<<"*">> \o Str(sketch[i].detail) \o <<"*">>)]

get_formatted_sketch_body(sketch, detailed) ==
    IF detailed
    THEN [i \in 1..Len(sketch) |->
             [type |-> sketch[i].type, actor |-> sketch[i].actor,
              character |-> sketch[i].character, detail |-> sketch[i].detail]]
    ELSE [i \in 1..Len(sketch) |->
             IF sketch[i].type = "Dialogue"
             THEN JsonString(Str(sketch[i].character) \o <<":", " ">>
                                 \o Str(sketch[i].detail))
             ELSE JsonString(<<"*">> \o Str(sketch[i].detail) \o <<"*">>)]

get_all_sketches(season) ==
    LET named == SelectSeq(db, LAMBDA r : r.segment # None)
    IN  IF TruthyInt(season)
        THEN IF season[1] \notin {1, 2, 3, 4}
             THEN HTTPException(404, "Season out of range")
             ELSE LET range == season_ranges[season[1]]
                      lower == range[1]
                      upper == range[Len(range)]
                  IN  Return(Distinct(Segments(SelectSeq(named,
                          LAMBDA r : lower <= r.episode /\ r.episode <= upper))))
        ELSE Return(Distinct(Segments(named)))

get_episode_sketches(episode) ==
    IF episode < 1 \/ episode > 45
    THEN HTTPException(404, "Episode out of range")
    ELSE Return(Distinct(Segments(SelectSeq(db,
             LAMBDA r : r.episode = episode /\ r.segment # None))))

\* f"episode_{episode}" and f"season_{season}".
EpisodeKey(episode) == <<"e", "p", "i", "s", "o", "d", "e", "_">> \o IntToStr(episode)

SeasonKey(season) == <<"s", "e", "a", "s", "o", "n", "_">> \o IntToStr(season)

get_nested_episode_sketches(episode) ==
    LET sketches == get_episode_sketches(episode)
    IN  IF sketches.status # 200 THEN sketches
        ELSE Return(EpisodeKey(episode) :> sketches.data)

get_nested_season_sketches(season) ==
    LET range == season_ranges[season]
        each == [i \in 1..Len(range) |-> get_nested_episode_sketches(range[i])]
        raised == {i \in 1..Len(range) : each[i].status # 200}
    IN  IF raised # {}
        THEN each[CHOOSE i \in raised : \A j \in raised : i <= j]
        ELSE Return(SeasonKey(season) :> [i \in 1..Len(range) |-> each[i].data])

\* The loop over [1, 2, 3, 4]: dict.update lets the later season's key win.
AllSeasons ==
    LET each == [season \in 1..4 |-> get_nested_season_sketches(season)]
        raised == {season \in 1..4 : each[season].status # 200}
    IN  IF raised # {}
        THEN each[CHOOSE i \in raised : \A j \in raised : i <= j]
        ELSE Return(each[4].data @@ each[3].data @@ each[2].data @@ each[1].data)

get_nested_seasons(season) ==
    IF TruthyInt(season)
    THEN IF season[1] \notin {1, 2, 3, 4}
         THEN HTTPException(404, "Season not found")
         ELSE get_nested_season_sketches(season[1])
    ELSE AllSeasons

NUM_MATCHES_ALLOWED == 1

\* CUTOFF = 0.5, as a fraction.
CUTOFF == <<1, 2>>

\* get_sketch; pick is the index random.choice draws.
get_sketch(sketch, detailed, pick) ==
    LET sketches == get_all_sketches(NoInt).data
        closest_match ==
            get_close_matches(sketch, sketches, NUM_MATCHES_ALLOWED, CUTOFF)
        choice == IF sketch = None THEN sketches[pick]
                  ELSE IF closest_match # <<>> THEN closest_match[1]
                  ELSE sketch
        query == SelectSeq(db, LAMBDA r : Like(r.segment, choice))
    IN  IF sketch = None /\ sketches = <<>> THEN Uncaught("IndexError")
        ELSE IF query = <<>> THEN HTTPException(404, "Sketch not found")
        ELSE Return([sketch |-> query[1].segment,
                     episode |-> query[1].episode,
                     body |-> get_formatted_sketch_body(query, detailed)])

\* get_episode; rand is the number random.randint(1, 45) draws.
get_episode(number, detailed, rand) ==
    LET n == IF TruthyInt(number) THEN number[1] ELSE rand
        query == IF TruthyInt(number)
                 THEN SelectSeq(db, LAMBDA r : EpisodeIsText(r, n))
                 ELSE SelectSeq(db, LAMBDA r : r.episode = n)
        sketches == get_episode_sketches(n)
        lines(sketch_name) ==
            IF ~TruthyStr(sketch_name)
            THEN SelectSeq(db, LAMBDA r : r.episode = n /\ r.segment = None)
            ELSE SelectSeq(db, LAMBDA r : r.episode = n /\ Like(r.segment, sketch_name))
    IN  IF query = <<>> THEN HTTPException(404, "Episode not found")
        ELSE IF sketches.status # 200 THEN sketches
        ELSE Return([episode |-> n,
                     body |-> [i \in 1..Len(sketches.data) |->
                                 [sketch |-> sketches.data[i],
                                  lines |-> get_formatted_sketch_body(
                                                lines(sketches.data[i]), detailed)]]])

\* The rows get_random_quote's query can return.
QuoteCandidates(actor, episode, sketch) ==
    SelectSeq(db, LAMBDA r :
        /\ r.type = "Dialogue"
        /\ TruthyInt(episode) => EpisodeIsText(r, episode[1])
        /\ TruthyStr(actor) => Like(r.actor, actor)
        /\ TruthyStr(sketch) => Like(r.segment, sketch))

\* get_random_quote; pick is the row ORDER BY random() puts first.
get_random_quote(actor, episode, sketch, pick) ==
    LET rows == QuoteCandidates(actor, episode, sketch)
    IN  IF rows = <<>> THEN HTTPException(404, "Quote not found")
        ELSE Return([episode |-> rows[pick].episode, sketch |-> rows[pick].segment,
                     actor |-> rows[pick].actor, quote |-> rows[pick].detail])

\* The parameters of crud.get_random_quote besides db.
get_random_quote_params == {"actor", "episode", "sketch"}

(***************************************************************************)
(* The datasets and the inputs explored.                                   *)
(***************************************************************************)
MaxRows == 2

DataEpisodes == {1, 14}

DataSegments == {None, <<"a">>, <<"A">>}

\* (type, actor, character, detail) of a line.
DataLines ==
    {<<"Dialogue", <<"j">>, <<"k">>, <<"t">>>>,
     <<"Direction", None, None, <<"n">>>>}

Rows ==
    {Script(e, g, l[1], l[2], l[3], l[4]) :
        e \in DataEpisodes, g \in DataSegments, l \in DataLines}

\* One line of the sketch "b" in every episode 1..45, its character unknown.
EveryEpisode ==
    [e \in 1..45 |-> Script(e, <<"b">>, "Dialogue", <<"j">>, None, <<"t">>)]

Datasets ==
    {head \o tail :
        head \in UNION {[1..k -> Rows] : k \in 0..MaxRows},
        tail \in {<<>>, EveryEpisode}}

EpisodeInputs == {-1, 0, 1, 14, 45, 46}

SeasonInputs == {-1, 0, 1, 2, 3, 4, 5}

NameInputs == {<<"a">>, <<"A">>, <<"a", "b">>, <<"b">>, <<"%">>, <<"_">>, <<"k">>}

Picks(rows) == 1..(IF Len(rows) = 0 THEN 1 ELSE Len(rows))

(***************************************************************************)
(* api/main.py: one action per endpoint.                                   *)
(***************************************************************************)
\* No request is being served: the session of get_db is closed.
NoRequest == [op |-> "none"]

NoResponse == [status |-> 0]

Init ==
    /\ db \in Datasets
    /\ req = NoRequest
    /\ resp = NoResponse

\* get_db: the request ends and its session is closed.
get_db ==
    /\ req.op # "none"
    /\ req' = NoRequest
    /\ resp' = NoResponse
    /\ UNCHANGED db

\* GET /quotes/random
main_get_random_quote ==
    /\ req.op = "none"
    /\ \E actor \in {None, <<"j">>}, episode \in {NoInt, SomeInt(1)},
       min_length \in {NoInt, SomeInt(-1), SomeInt(1)},
       max_length \in {NoInt, SomeInt(2)} :
        LET sketch == None
            kwargs == {"actor", "episode", "sketch", "min_length", "max_length"}
        IN  /\ req' = [op |-> "main.get_random_quote", actor |-> actor,
                       episode |-> episode, sketch |-> sketch,
                       min_length |-> min_length, max_length |-> max_length]
            /\ \E pick \in Picks(QuoteCandidates(actor, episode, sketch)) :
                 resp' = IF kwargs \subseteq get_random_quote_params
                         THEN get_random_quote(actor, episode, sketch, pick)
                         ELSE Uncaught("TypeError")
            /\ UNCHANGED db

\* GET /episodes/random
main_get_random_episode ==
    /\ req.op = "none"
    /\ \E detailed \in BOOLEAN, rand \in 1..45 :
        /\ req' = [op |-> "main.get_random_episode", detailed |-> detailed]
        /\ resp' = get_episode(NoInt, detailed, rand)
        /\ UNCHANGED db

\* GET /episodes/{episode}
main_get_episode ==
    /\ req.op = "none"
    /\ \E episode \in EpisodeInputs, detailed \in BOOLEAN, rand \in 1..45 :
        /\ req' = [op |-> "main.get_episode", episode |-> episode,
                   detailed |-> detailed]
        /\ resp' = get_episode(SomeInt(episode), detailed, rand)
        /\ UNCHANGED db

\* GET /sketches
main_get_all_sketches ==
    /\ req.op = "none"
    /\ \E nested \in BOOLEAN :
        /\ req' = [op |-> "main.get_all_sketches", nested |-> nested]
        /\ resp' = IF nested THEN AsSeasons(get_nested_seasons(NoInt))
                   ELSE AsSketches(get_all_sketches(NoInt))
        /\ UNCHANGED db

\* GET /sketches/random
main_get_random_sketch ==
    /\ req.op = "none"
    /\ \E detailed \in BOOLEAN, pick \in Picks(get_all_sketches(NoInt).data) :
        /\ req' = [op |-> "main.get_random_sketch", detailed |-> detailed]
        /\ resp' = get_sketch(None, detailed, pick)
        /\ UNCHANGED db

\* GET /sketches/season/{season}
main_get_season_sketches ==
    /\ req.op = "none"
    /\ \E season \in SeasonInputs, nested \in BOOLEAN :
        /\ req' = [op |-> "main.get_season_sketches", season |-> season,
                   nested |-> nested]
        /\ resp' = IF nested THEN AsSeasons(get_nested_seasons(SomeInt(season)))
                   ELSE AsSketches(get_all_sketches(SomeInt(season)))
        /\ UNCHANGED db

\* GET /sketches/episode/{episode}
main_get_episode_sketches ==
    /\ req.op = "none"
    /\ \E episode \in EpisodeInputs :
        /\ req' = [op |-> "main.get_episode_sketches", episode |-> episode]
        /\ resp' = AsSketches(get_episode_sketches(episode))
        /\ UNCHANGED db

\* GET /sketches/sketch/{sketch}
main_get_sketch ==
    /\ req.op = "none"
    /\ \E sketch \in NameInputs, detailed \in BOOLEAN :
        /\ req' = [op |-> "main.get_sketch", sketch |-> sketch,
                   detailed |-> detailed]
        /\ resp' = get_sketch(sketch, detailed, 1)
        /\ UNCHANGED db

(***************************************************************************)
(* Direct calls of api/crud.py.                                            *)
(***************************************************************************)
crud_get_random_quote ==
    /\ req.op = "none"
    /\ \E actor \in {None, <<"J">>}, episode \in {NoInt, SomeInt(0), SomeInt(1), SomeInt(45)},
       sketch \in {None, <<"a">>} :
        /\ req' = [op |-> "crud.get_random_quote", actor |-> actor,
                   episode |-> episode, sketch |-> sketch]
        /\ \E pick \in Picks(QuoteCandidates(actor, episode, sketch)) :
             resp' = get_random_quote(actor, episode, sketch, pick)
        /\ UNCHANGED db

\* get_formatted_sketch_body applied to the query of one episode's rows.
crud_get_formatted_sketch_body ==
    /\ req.op = "none"
    /\ \E episode \in DataEpisodes, detailed \in BOOLEAN :
        LET sketch == SelectSeq(db, LAMBDA r : r.episode = episode)
        IN  /\ req' = [op |-> "crud.get_formatted_sketch_body", sketch |-> sketch,
                       detailed |-> detailed]
            /\ resp' = AsLines(Return(get_formatted_sketch_body(sketch, detailed)))
            /\ UNCHANGED db

Next ==
    \/ main_get_random_quote
    \/ main_get_random_episode
    \/ main_get_episode
    \/ main_get_all_sketches
    \/ main_get_random_sketch
    \/ main_get_season_sketches
    \/ main_get_episode_sketches
    \/ main_get_sketch
    \/ crud_get_random_quote
    \/ crud_get_formatted_sketch_body
    \/ get_db

Spec == Init /\ [][Next]_vars

\* The sketch listings alone.
NextSketches ==
    \/ main_get_all_sketches
    \/ main_get_season_sketches
    \/ get_db

SpecSketches == Init /\ [][NextSketches]_vars

\* The pure function get_formatted_sketch_body alone.
NextFormatted ==
    \/ crud_get_formatted_sketch_body
    \/ get_db

SpecFormatted == Init /\ [][NextFormatted]_vars

(***************************************************************************)
(* Properties.                                                             *)
(***************************************************************************)
\* The range table of the seasons: first and last episode of each.
SeasonFirst(s) == CASE s = 1 -> 1 [] s = 2 -> 14 [] s = 3 -> 27 [] s = 4 -> 40

SeasonLast(s) == CASE s = 1 -> 13 [] s = 2 -> 26 [] s = 3 -> 39 [] s = 4 -> 45

\* data lists under season_s exactly the episodes of s, ascending, one entry each.
ListsSeason(data, s) ==
    /\ SeasonKey(s) \in DOMAIN data
    /\ LET episodes == data[SeasonKey(s)]
       IN  /\ Len(episodes) = SeasonLast(s) - SeasonFirst(s) + 1
           /\ \A i \in 1..Len(episodes) :
                DOMAIN episodes[i] = {EpisodeKey(SeasonFirst(s) + i - 1)}

\* C6: the nested view of a season s in 1..4 has the single key season_s with
\* one entry per episode of the range of s (1..13, 14..26, 27..39, 40..45), in
\* ascending order; with no season, the four seasons list 1..45 exactly once.
C6_NestedSeasonsMatchRanges ==
    /\ (req.op = "main.get_season_sketches" /\ req.nested /\ req.season \in 1..4)
         => /\ resp.status = 200
            /\ DOMAIN resp.data.seasons = {SeasonKey(req.season)}
            /\ ListsSeason(resp.data.seasons, req.season)
    /\ (req.op = "main.get_all_sketches" /\ req.nested)
         => /\ resp.status = 200
            /\ DOMAIN resp.data.seasons = {SeasonKey(s) : s \in 1..4}
            /\ \A s \in 1..4 : ListsSeason(resp.data.seasons, s)
            /\ Len(resp.data.seasons[SeasonKey(1)]) + Len(resp.data.seasons[SeasonKey(2)])
                 + Len(resp.data.seasons[SeasonKey(3)]) + Len(resp.data.seasons[SeasonKey(4)]) = 45
            /\ \A e \in 1..45 :
                 \E s \in 1..4 : \E i \in 1..Len(resp.data.seasons[SeasonKey(s)]) :
                     EpisodeKey(e) \in DOMAIN resp.data.seasons[SeasonKey(s)][i]

C6_Witness ==
    /\ req.op = "main.get_season_sketches"
    /\ req.nested
    /\ req.season = 4
    /\ resp.status = 200
    /\ Len(resp.data.seasons[SeasonKey(4)]) = 6
    /\ resp.data.seasons[SeasonKey(4)][1][EpisodeKey(40)] # <<>>

\* C8: get_formatted_sketch_body keeps the number and the order of its lines;
\* condensed, a Dialogue line reads "<character>: <text>" and any other line
\* "*<text>*"; detailed, a line is the record of its type, actor, character
\* and detail.
C8_FormattedBodyRendersEachLine ==
    req.op = "crud.get_formatted_sketch_body"
      => /\ resp.status = 200
         /\ Len(resp.data.lines) = Len(req.sketch)
         /\ \A i \in 1..Len(req.sketch) :
              LET line == req.sketch[i]
                  out == resp.data.lines[i]
              IN  IF req.detailed
                  THEN /\ DOMAIN out = {"type", "actor", "character", "detail"}
                       /\ out.type = line.type
                       /\ out.actor = line.actor
                       /\ out.character = line.character
                       /\ out.detail = line.detail
                  ELSE /\ DOMAIN out = {"string"}
                       /\ LET text == out.string
                              n == Len(text)
                              d == Len(line.detail)
                          IN  IF line.type = "Dialogue"
                              THEN /\ n = Len(Str(line.character)) + 2 + d
                                   /\ SubSeq(text, 1, n - d - 2) = Str(line.character)
                                   /\ SubSeq(text, n - d - 1, n - d) = <<":", " ">>
                                   /\ SubSeq(text, n - d + 1, n) = line.detail
                              ELSE /\ n = d + 2
                                   /\ text[1] = "*"
                                   /\ text[n] = "*"
                                   /\ SubSeq(text, 2, n - 1) = line.detail

C8_Witness ==
    /\ req.op = "crud.get_formatted_sketch_body"
    /\ ~req.detailed
    /\ Len(req.sketch) >= 3
    /\ req.sketch[1].type = "Direction"
    /\ req.sketch[2].type = "Dialogue"
    /\ resp.data.lines[1].string = <<"*", "n", "*">>
    /\ resp.data.lines[2].string = <<"k", ":", " ", "t">>
    /\ resp.data.lines[3].string = <<"N", "o", "n", "e", ":", " ", "t">>

\* The rows of episode n, in table order.
EpisodeRows(n) == SelectSeq(db, LAMBDA r : r.episode = n)

\* C1: for n in 1..45 with lines in the dataset, get_episode(n) returns one group
\* per sketch of the episode (the null sketch included), in the order of first
\* occurrence, and each group holds exactly the lines of its sketch in the
\* episode, so that every line of the episode is returned exactly once.
C1_EpisodeReturnsExactlyItsLines ==
    (req.op = "main.get_episode" /\ req.episode \in 1..45
        /\ EpisodeRows(req.episode) # <<>>)
      => /\ resp.status = 200
         /\ LET rows == EpisodeRows(req.episode)
                names == Distinct(Segments(rows))
                body == resp.data.body
            IN  /\ Len(body) = Len(names)
                /\ \A i \in 1..Len(names) :
                     /\ body[i].sketch = names[i]
                     /\ body[i].lines =
                          get_formatted_sketch_body(
                              SelectSeq(rows, LAMBDA r : r.segment = names[i]),
                              req.detailed)

\* C2: a season outside 1..4 and an episode outside 1..45 (0 and negative
\* numbers included) always end in a 404, never in data.
C2_OutOfRangeIsNotFound ==
    /\ (req.op = "main.get_season_sketches" /\ req.season \notin 1..4)
         => resp.status = 404
    /\ (req.op \in {"main.get_episode", "main.get_episode_sketches"}
          /\ req.episode \notin 1..45)
         => resp.status = 404

\* C3: /quotes/random answers with a quote or a not-found and nothing else, and
\* a returned quote has a length within the inclusive bounds given (a negative
\* lower bound clamped to 0).
C3_QuoteLengthWithinBounds ==
    req.op = "main.get_random_quote"
      => /\ resp.status \in {200, 404}
         /\ resp.status = 200
              => /\ req.min_length # NoInt => Len(resp.data.quote) >= req.min_length[1]
                 /\ req.max_length # NoInt => Len(resp.data.quote) <= req.max_length[1]

HasEveryEpisode == \A e \in 1..45 : EpisodeRows(e) # <<>>

\* C4: on a dataset with lines for every episode 1..45, the random endpoints
\* called with no filter return an existing sketch, episode or dialogue line
\* and never an error.
C4_RandomEndpointsReturnData ==
    HasEveryEpisode
      => /\ req.op = "main.get_random_sketch"
              => /\ resp.status = 200
                 /\ \E i \in 1..Len(db) : db[i].segment = resp.data.sketch
         /\ req.op = "main.get_random_episode"
              => /\ resp.status = 200
                 /\ \E i \in 1..Len(db) : db[i].episode = resp.data.episode
         /\ (req.op = "main.get_random_quote" /\ req.actor = None
               /\ req.episode = NoInt /\ req.sketch = None
               /\ req.min_length = NoInt /\ req.max_length = NoInt)
              => /\ resp.status = 200
                 /\ \E i \in 1..Len(db) :
                      /\ db[i].type = "Dialogue"
                      /\ db[i].detail = resp.data.quote

\* The sketch names of the dataset.
SketchNames == {db[i].segment : i \in 1..Len(db)} \ {None}

\* C5: get_sketch(name), name no exact sketch name: when the most similar sketch
\* name has a similarity of at least 0.5, the result is that sketch, with its
\* lines; when no sketch name reaches 0.5, the answer is 404 Sketch not found.
C5_FuzzyLookupResolvesOrNotFound ==
    (req.op = "main.get_sketch" /\ req.sketch \notin SketchNames)
      => IF \E x \in SketchNames : FracGeq(Ratio(x, req.sketch), <<1, 2>>)
         THEN /\ resp.status = 200
              /\ resp.data.sketch \in SketchNames
              /\ \A x \in SketchNames :
                   FracGeq(Ratio(resp.data.sketch, req.sketch), Ratio(x, req.sketch))
              /\ resp.data.body =
                   get_formatted_sketch_body(
                       SelectSeq(db, LAMBDA r : r.segment = resp.data.sketch),
                       req.detailed)
         ELSE /\ resp.status = 404
              /\ resp.detail = "Sketch not found"

\* C7: get_sketch, get_episode and get_random_quote answer 404 exactly when their
\* query matches no row, and a returned sketch or episode has at least one line.
C7_NotFoundExactlyWhenNoRows ==
    /\ req.op = "main.get_sketch"
         => /\ resp.status \in {200, 404}
            /\ resp.status = 200 => Len(resp.data.body) >= 1
    /\ (req.op = "main.get_episode" /\ req.episode # 0)
         => /\ resp.status = 404 <=> EpisodeRows(req.episode) = <<>>
            /\ resp.status = 200
                 => /\ Len(resp.data.body) >= 1
                    /\ \A i \in 1..Len(resp.data.body) :
                         Len(resp.data.body[i].lines) >= 1
    /\ req.op = "crud.get_random_quote"
         => (resp.status = 404
               <=> QuoteCandidates(req.actor, req.episode, req.sketch) = <<>>)

\* The Dialogue rows that satisfy every filter supplied (not None).
SatisfiesFilters(r, actor, episode, sketch) ==
    /\ r.type = "Dialogue"
    /\ episode # NoInt => r.episode = episode[1]
    /\ actor # None => Like(r.actor, actor)
    /\ sketch # None => Like(r.segment, sketch)

\* C9: crud.get_random_quote returns a Dialogue line that satisfies every filter
\* supplied (episode 0 included), and raises 404 Quote not found when no
\* Dialogue line satisfies them.
C9_RandomQuoteSatisfiesFilters ==
    req.op = "crud.get_random_quote"
      => LET matching == {i \in 1..Len(db) :
                 SatisfiesFilters(db[i], req.actor, req.episode, req.sketch)}
         IN  /\ resp.status = 200
                  => \E i \in matching :
                       /\ db[i].episode = resp.data.episode
                       /\ db[i].segment = resp.data.sketch
                       /\ db[i].actor = resp.data.actor
                       /\ db[i].detail = resp.data.quote
             /\ matching = {}
                  => resp.status = 404 /\ resp.detail = "Quote not found"

\* C10: the lines in the body of a get_sketch result are dataset lines of the
\* returned sketch in the returned episode: no rendered line occurs more often
\* in the body than among the lines of that sketch in that episode.
C10_SketchHeaderAgreesWithBody ==
    (req.op \in {"main.get_sketch", "main.get_random_sketch"} /\ resp.status = 200)
      => \A i \in 1..Len(resp.data.body) :
           Cardinality({j \in 1..Len(resp.data.body) :
                           resp.data.body[j] = resp.data.body[i]})
             <= Cardinality({k \in 1..Len(db) :
                   /\ db[k].segment = resp.data.sketch
                   /\ db[k].episode = resp.data.episode
                   /\ get_formatted_sketch_body(<<db[k]>>, req.detailed)[1]
                        = resp.data.body[i]})

====
